---- MODULE Spec2Model ----
(***************************************************************************)
(* A model of scripts/vsmlrt.py: the tile-size calculator calcSize, the    *)
(* backend dispatcher inference, and the two presets Waifu2x and DPIR.     *)
(*                                                                         *)
(* The program keeps no state between invocations.  The model records one  *)
(* invocation at a time: which entry point was called (op), with which     *)
(* arguments (args), the exception it raised (exc), the calls it made into *)
(* the host and its plugins, in order (calls), the network path it         *)
(* resolved (network_path) and the value it returned (ret).                *)
(***************************************************************************)
EXTENDS Integers, Sequences, FiniteSets, TLC

VARIABLES op, args, exc, calls, network_path, ret

vars == <<op, args, exc, calls, network_path, ret>>

(***************************************************************************)
(* Bounds of the model.                                                    *)
(***************************************************************************)
\* calcSize called on its own: width in 0..MaxWidth, and so on.
MaxWidth == 100
MaxCalcTiles == 4
MaxCalcOverlap == 8
MaxMultiple == 8
\* The presets: frame dimensions are the even numbers 4 .. 2 * MaxHalfDim.
MaxHalfDim == 4
MaxTiles == 2
MaxOverlap == 1

Dims == {2 * k : k \in 2..MaxHalfDim}
Frames == {1, 2}

(***************************************************************************)
(* Values of the host library (vapoursynth) the code compares against.     *)
(***************************************************************************)
GRAYS == [id |-> "GRAYS", sample_type |-> "FLOAT", bits_per_sample |-> 32]
RGBS == [id |-> "RGBS", sample_type |-> "FLOAT", bits_per_sample |-> 32]
GRAYH == [id |-> "GRAYH", sample_type |-> "FLOAT", bits_per_sample |-> 16]
GRAY8 == [id |-> "GRAY8", sample_type |-> "INTEGER", bits_per_sample |-> 8]

Formats == {GRAYS, RGBS, GRAYH, GRAY8}

VideoNode(format, width, height, num_frames) ==
    [kind |-> "VideoNode", format |-> format, width |-> width,
     height |-> height, num_frames |-> num_frames]

\* A Python object that is no vs.VideoNode.
NotAClip == [kind |-> "object"]

\* Python's None, an int, or a pair of ints, as the tiles, tilesize and
\* overlap arguments take them.
NoneArg == [kind |-> "None", a |-> 0, b |-> 0]
IntArg(v) == [kind |-> "int", a |-> v, b |-> v]
TupleArg(v, w) == [kind |-> "tuple", a |-> v, b |-> w]

NoExc == [type |-> "none", about |-> "none"]
Raise(type, about) == [type |-> type, about |-> about]

(***************************************************************************)
(* class Backend: three frozen dataclasses.  A backend argument is an      *)
(* instance of one of them (inst = TRUE), one of the classes itself        *)
(* (inst = FALSE), or some other object (cls = "other").                   *)
(***************************************************************************)
ORT_CPU(num_streams, verbosity) ==
    [cls |-> "ORT_CPU", inst |-> TRUE,
     num_streams |-> num_streams, verbosity |-> verbosity]

ORT_CUDA(device_id, cudnn_benchmark, num_streams, verbosity) ==
    [cls |-> "ORT_CUDA", inst |-> TRUE, device_id |-> device_id,
     cudnn_benchmark |-> cudnn_benchmark,
     num_streams |-> num_streams, verbosity |-> verbosity]

OV_CPU == [cls |-> "OV_CPU", inst |-> TRUE]

BackendClass(cls) == [cls |-> cls, inst |-> FALSE]

OtherBackend == [cls |-> "other", inst |-> TRUE]

BackendClasses == {"ORT_CPU", "ORT_CUDA", "OV_CPU"}

\* Backend.X(): the instance with the dataclass's default fields.
BackendDefault(cls) ==
    CASE cls = "ORT_CPU" -> ORT_CPU(1, 2)
      [] cls = "ORT_CUDA" -> ORT_CUDA(0, TRUE, 1, 2)
      [] cls = "OV_CPU" -> OV_CPU

(***************************************************************************)
(* calcSize                                                                *)
(***************************************************************************)
\* math.ceil(n / d) for n >= 0 and d > 0.  Python's n / d is the correctly
\* rounded double of the quotient, which for operands below 2^53 is above
\* the integer part exactly when the remainder is not zero.
CeilDiv(n, d) == IF n % d = 0 THEN n \div d ELSE (n \div d) + 1

\* n / d raises ZeroDivisionError.
calcSizeRaises(tiles, multiple) == tiles * multiple = 0

calcSize_floor(width, tiles, overlap, multiple) ==
    ((width + 2 * overlap * (tiles - 1)) \div (tiles * multiple)) * multiple

calcSize_roomy(width, tiles, overlap, multiple) ==
    (((width + 2 * overlap * (tiles - 1)) \div (tiles * multiple)) + 1) * multiple

calcSize(width, tiles, overlap, multiple) ==
    CeilDiv(width + 2 * overlap * (tiles - 1), tiles * multiple) * multiple

(***************************************************************************)
(* The host's plugins.  What a plugin returns is the host's business: the  *)
(* model keeps only the metadata of the returned clip.  A network returns  *)
(* a clip of net_scale times the size of its first input; net_scale is     *)
(* decided by the network file, outside this code.                         *)
(***************************************************************************)
NetScales == {1, 2}

Scaled(clip, num, den) ==
    VideoNode(clip.format, (clip.width * num) \div den,
              (clip.height * num) \div den, clip.num_frames)

(***************************************************************************)
(* inference: the backend dispatcher.  The result is the exception raised  *)
(* (NoExc if none) and the delegate calls made.                            *)
(***************************************************************************)
OrtCpuCall(clips, path, overlap, tilesize, backend) ==
    [fn |-> "core.ort.Model", clips |-> clips, network_path |-> path,
     overlap |-> overlap, tilesize |-> tilesize,
     provider |-> "CPU", builtin |-> 1,
     num_streams |-> backend.num_streams, verbosity |-> backend.verbosity]

OrtCudaCall(clips, path, overlap, tilesize, backend) ==
    [fn |-> "core.ort.Model", clips |-> clips, network_path |-> path,
     overlap |-> overlap, tilesize |-> tilesize,
     provider |-> "CUDA", builtin |-> 1,
     device_id |-> backend.device_id, num_streams |-> backend.num_streams,
     verbosity |-> backend.verbosity,
     cudnn_benchmark |-> backend.cudnn_benchmark]

OvCpuCall(clips, path, overlap, tilesize) ==
    [fn |-> "core.ov.Model", clips |-> clips, network_path |-> path,
     overlap |-> overlap, tilesize |-> tilesize,
     device |-> "CPU", builtin |-> 1]

\* isinstance(backend, Backend.X)
IsInstance(backend, cls) == backend.inst /\ backend.cls = cls

\* A dispatcher that tries the ov delegate before it rejects an unknown backend.
inference_late(clips, path, overlap, tilesize, backend) ==
    IF IsInstance(backend, "ORT_CPU")
    THEN [exc |-> NoExc,
          calls |-> <<OrtCpuCall(clips, path, overlap, tilesize, backend)>>]
    ELSE IF IsInstance(backend, "ORT_CUDA")
    THEN [exc |-> NoExc,
          calls |-> <<OrtCudaCall(clips, path, overlap, tilesize, backend)>>]
    ELSE IF IsInstance(backend, "OV_CPU")
    THEN [exc |-> NoExc, calls |-> <<OvCpuCall(clips, path, overlap, tilesize)>>]
    ELSE [exc |-> Raise("ValueError", "backend"),
          calls |-> <<OvCpuCall(clips, path, overlap, tilesize)>>]

\* A dispatcher that falls back to the ov delegate for an unknown backend.
inference_fallback(clips, path, overlap, tilesize, backend) ==
    IF IsInstance(backend, "ORT_CPU")
    THEN [exc |-> NoExc,
          calls |-> <<OrtCpuCall(clips, path, overlap, tilesize, backend)>>]
    ELSE IF IsInstance(backend, "ORT_CUDA")
    THEN [exc |-> NoExc,
          calls |-> <<OrtCudaCall(clips, path, overlap, tilesize, backend)>>]
    ELSE [exc |-> NoExc, calls |-> <<OvCpuCall(clips, path, overlap, tilesize)>>]

inference(clips, path, overlap, tilesize, backend) ==
    IF IsInstance(backend, "ORT_CPU")
    THEN [exc |-> NoExc,
          calls |-> <<OrtCpuCall(clips, path, overlap, tilesize, backend)>>]
    ELSE IF IsInstance(backend, "ORT_CUDA")
    THEN [exc |-> NoExc,
          calls |-> <<OrtCudaCall(clips, path, overlap, tilesize, backend)>>]
    ELSE IF IsInstance(backend, "OV_CPU")
    THEN [exc |-> NoExc, calls |-> <<OvCpuCall(clips, path, overlap, tilesize)>>]
    ELSE [exc |-> Raise("ValueError", "backend"), calls |-> <<>>]

(***************************************************************************)
(* What the two presets share, statement for statement.                    *)
(***************************************************************************)
\* if overlap is None / elif isinstance(overlap, int) / else
OverlapPair(overlap, default) ==
    IF overlap.kind = "None" THEN <<default, default>>
    ELSE <<overlap.a, overlap.b>>

\* if tilesize is None: (if tiles is None / int / pair) elif int / else.
\* With neither tiles nor tilesize the code rebinds its local `overlap` to 0
\* (the field overlap below) and leaves overlap_w and overlap_h as they are.
TileGeometry(clip, tiles, tilesize, overlap, overlap_w, overlap_h, multiple) ==
    IF tilesize.kind = "None"
    THEN IF tiles.kind = "None"
         THEN [exc |-> NoExc, tile_w |-> clip.width, tile_h |-> clip.height,
               overlap |-> IntArg(0)]
         ELSE IF calcSizeRaises(tiles.a, multiple) \/ calcSizeRaises(tiles.b, multiple)
         THEN [exc |-> Raise("ZeroDivisionError", "none"),
               tile_w |-> 0, tile_h |-> 0, overlap |-> overlap]
         ELSE [exc |-> NoExc,
               tile_w |-> calcSize(clip.width, tiles.a, overlap_w, multiple),
               tile_h |-> calcSize(clip.height, tiles.b, overlap_h, multiple),
               overlap |-> overlap]
    ELSE [exc |-> NoExc, tile_w |-> tilesize.a, tile_h |-> tilesize.b,
          overlap |-> overlap]

\* if backend is Backend.ORT_CPU: backend = Backend.ORT_CPU() ...
NormalizeBackend(backend) ==
    IF ~backend.inst /\ backend.cls \in BackendClasses
    THEN BackendDefault(backend.cls)
    ELSE backend

\* What an invocation leaves behind: the exception it raised, the host calls
\* it made, the network path it resolved ("" if none) and what it returned.
NoRet == [kind |-> "none"]
NoPath == ""

Outcome(e, c, p, r) == [exc |-> e, calls |-> c, network_path |-> p, ret |-> r]

(***************************************************************************)
(* Waifu2x                                                                 *)
(***************************************************************************)
\* tuple(Waifu2xModel.__members__), indexed from 1 here.
Waifu2xModelNames ==
    <<"anime_style_art", "anime_style_art_rgb", "photo",
      "upconv_7_anime_style_art_rgb", "upconv_7_photo", "upresnet10", "cunet">>

\* [8, 8, 8, 8, 8, 4, 4][model], indexed from 1 here.
Waifu2xDefaultOverlap == <<8, 8, 8, 8, 8, 4, 4>>

\* The checks of the arguments: the first exception raised, or NoExc.
Waifu2xValidate(clip, noise, scale, model) ==
    IF clip.kind # "VideoNode" THEN Raise("TypeError", "clip")
    ELSE IF clip.format.sample_type # "FLOAT" \/ clip.format.bits_per_sample # 32
    THEN Raise("ValueError", "format")
    ELSE IF noise \notin -1..3 THEN Raise("ValueError", "noise")
    ELSE IF scale \notin {1, 2} THEN Raise("ValueError", "scale")
    ELSE IF model \notin 0..6 THEN Raise("ValueError", "model")
    ELSE IF model = 0 /\ noise = 0 THEN Raise("ValueError", "noise")
    ELSE IF model = 0 /\ clip.format.id # "GRAYS" THEN Raise("ValueError", "clip")
    ELSE IF model # 0 /\ clip.format.id # "RGBS" THEN Raise("ValueError", "clip")
    ELSE NoExc

Waifu2xMultiple(model) == IF model = 6 THEN 4 ELSE 1

Waifu2xTileCheck(model, tile_w, tile_h) ==
    IF model = 6 /\ (tile_w % 4 # 0 \/ tile_h % 4 # 0)
    THEN Raise("ValueError", "tilesize")
    ELSE NoExc

\* Overlap and tile size, for arguments that passed Waifu2xValidate.
Waifu2xTiles(clip, tiles, tilesize, overlap, model) ==
    LET ov == OverlapPair(overlap, Waifu2xDefaultOverlap[model + 1])
        g == TileGeometry(clip, tiles, tilesize, overlap, ov[1], ov[2],
                          Waifu2xMultiple(model))
    IN  [exc |-> IF g.exc # NoExc THEN g.exc
                 ELSE Waifu2xTileCheck(model, g.tile_w, g.tile_h),
         overlap_w |-> ov[1], overlap_h |-> ov[2],
         tile_w |-> g.tile_w, tile_h |-> g.tile_h, overlap |-> g.overlap]

\* A resolver that names the cunet files as it names those of models 0..2.
Waifu2xNetworkPath_plain(model, noise, scale) ==
    "waifu2x/" \o Waifu2xModelNames[model + 1] \o "/" \o
    (IF noise = -1 THEN "scale2.0x_model.onnx"
     ELSE IF model \in {3, 4, 5}
     THEN "noise" \o ToString(noise) \o "_scale2.0x_model.onnx"
     ELSE "noise" \o ToString(noise) \o "_model.onnx")

Waifu2xNetworkPath(model, noise, scale) ==
    LET folder_path == "waifu2x/" \o Waifu2xModelNames[model + 1]
        scale_name == IF scale = 1 THEN "" ELSE "scale2.0x_"
        model_name ==
            IF model \in {0, 1, 2}
            THEN IF noise = -1 THEN "scale2.0x_model.onnx"
                 ELSE "noise" \o ToString(noise) \o "_model.onnx"
            ELSE IF model \in {3, 4, 5}
            THEN IF noise = -1 THEN "scale2.0x_model.onnx"
                 ELSE "noise" \o ToString(noise) \o "_scale2.0x_model.onnx"
            ELSE IF noise = -1 THEN "scale2.0x_model.onnx"
                 ELSE "noise" \o ToString(noise) \o "_" \o scale_name \o "model.onnx"
    IN  folder_path \o "/" \o model_name

BicubicCall(clip, width, height) ==
    [fn |-> "core.resize.Bicubic", clip |-> clip,
     width |-> width, height |-> height,
     filter_param_a |-> "0", filter_param_b |-> "0.75"]

ResampleCall(clip) ==
    [fn |-> "core.fmtc.resample", clip |-> clip, scale |-> "0.5",
     kernel |-> "impulse", impulse |-> <<"-0.1875", "1.375", "-0.1875">>,
     kovrspl |-> 2]

Waifu2x(clip, noise, scale, tiles, tilesize, overlap, model, backend, net_scale) ==
    LET v == Waifu2xValidate(clip, noise, scale, model) IN
    IF v # NoExc THEN Outcome(v, <<>>, NoPath, NoRet) ELSE
    LET t == Waifu2xTiles(clip, tiles, tilesize, overlap, model) IN
    IF t.exc # NoExc THEN Outcome(t.exc, <<>>, NoPath, NoRet) ELSE
    LET b == NormalizeBackend(backend)
        path == Waifu2xNetworkPath(model, noise, scale)
        width == clip.width
        pre == IF model \in {0, 1, 2}
               THEN <<BicubicCall(clip, width * 2, clip.height * 2)>> ELSE <<>>
        clip1 == IF model \in {0, 1, 2} THEN Scaled(clip, 2, 1) ELSE clip
        inf == inference(<<clip1>>, path, <<t.overlap_w, t.overlap_h>>,
                         <<t.tile_w, t.tile_h>>, b)
    IN
    IF inf.exc # NoExc THEN Outcome(inf.exc, pre \o inf.calls, path, NoRet) ELSE
    LET clip2 == Scaled(clip1, net_scale, 1) IN
    IF scale = 1 /\ clip2.width \div width = 2
    THEN Outcome(NoExc, pre \o inf.calls \o <<ResampleCall(clip2)>>, path,
                 Scaled(clip2, 1, 2))
    ELSE Outcome(NoExc, pre \o inf.calls, path, clip2)

(***************************************************************************)
(* DPIR                                                                    *)
(***************************************************************************)
\* tuple(DPIRModel.__members__), indexed from 1 here.
DPIRModelNames ==
    <<"drunet_gray", "drunet_color",
      "drunet_deblocking_grayscale", "drunet_deblocking_color">>

\* The strength argument: None, a number, a string, some other object, or a
\* clip.  StrArg("5") is the Python string "5".
NoStrength == [kind |-> "None"]
FloatArg(v) == [kind |-> "float", value |-> v]
StrArg(text) == [kind |-> "str", text |-> text]
ObjectArg == [kind |-> "object"]

\* The strings the model passes, and what Python's float() makes of each:
\* float("5") is 5.0, float("abc") raises ValueError.
NumericTexts == {"5"}
OtherTexts == {"abc"}
TextValue(text) == CASE text = "5" -> 5

\* float(strength): a number is converted, a string is parsed (ValueError if
\* it is no number), any other object raises TypeError.
Float(strength) ==
    CASE strength.kind = "float" -> [exc |-> "none", value |-> strength.value]
      [] strength.kind = "str" /\ strength.text \in NumericTexts ->
             [exc |-> "none", value |-> TextValue(strength.text)]
      [] strength.kind = "str" /\ strength.text \notin NumericTexts ->
             [exc |-> "ValueError", value |-> 0]
      [] OTHER -> [exc |-> "TypeError", value |-> 0]

\* The checks of clip and model: the first exception raised, or NoExc.
DPIRValidate(clip, model) ==
    IF clip.kind # "VideoNode" THEN Raise("TypeError", "clip")
    ELSE IF clip.format.sample_type # "FLOAT" \/ clip.format.bits_per_sample # 32
    THEN Raise("ValueError", "format")
    ELSE IF model \notin 0..3 THEN Raise("ValueError", "model")
    ELSE IF model \in {0, 2} /\ clip.format.id # "GRAYS"
    THEN Raise("ValueError", "clip")
    ELSE IF model \in {1, 3} /\ clip.format.id # "RGBS"
    THEN Raise("ValueError", "clip")
    ELSE NoExc

ExprCall(clip, expr) == [fn |-> "core.std.Expr", clip |-> clip, expr |-> expr]

\* color is strength / 255, kept as the pair <<strength, 255>>.
BlankClipCall(clip, format, color) ==
    [fn |-> "core.std.BlankClip", clip |-> clip, format |-> format.id,
     color |-> color]

\* strength.format.id != vs.GRAYS is an error
DPIRStrengthFormat(strength, clip) == strength.format.id = "GRAYS"

\* A strength check that forgets the frame count.
DPIRStrengthLength_any(strength, clip) == TRUE

DPIRStrengthLength(strength, clip) == strength.num_frames = clip.num_frames

\* The strength argument made into the network's second input, for a clip
\* that passed DPIRValidate: the exception raised, the host calls made and
\* the clip built.
DPIRStrength(clip, strength0) ==
    LET strength == IF strength0.kind = "None" THEN FloatArg(5) ELSE strength0 IN
    IF strength.kind = "VideoNode"
    THEN IF ~DPIRStrengthFormat(strength, clip)
         THEN [exc |-> Raise("ValueError", "strength"), calls |-> <<>>, clip |-> NoRet]
         ELSE IF strength.width # clip.width \/ strength.height # clip.height
         THEN [exc |-> Raise("ValueError", "strength"), calls |-> <<>>, clip |-> NoRet]
         ELSE IF ~DPIRStrengthLength(strength, clip)
         THEN [exc |-> Raise("ValueError", "strength"), calls |-> <<>>, clip |-> NoRet]
         ELSE [exc |-> NoExc, calls |-> <<ExprCall(strength, "x 255 /")>>,
               clip |-> strength]
    ELSE LET f == Float(strength) IN
         IF f.exc = "TypeError"
         THEN [exc |-> Raise("TypeError", "strength"), calls |-> <<>>, clip |-> NoRet]
         ELSE IF f.exc = "ValueError"
         THEN [exc |-> Raise("ValueError", "none"), calls |-> <<>>, clip |-> NoRet]
         ELSE [exc |-> NoExc,
               calls |-> <<BlankClipCall(clip, GRAYS, <<f.value, 255>>)>>,
               clip |-> VideoNode(GRAYS, clip.width, clip.height, clip.num_frames)]

DPIRMultiple == 8

\* A tile check that lets every tile size through.
DPIRTileCheck_none(tile_w, tile_h) == NoExc

DPIRTileCheck(tile_w, tile_h) ==
    IF tile_w % 8 # 0 \/ tile_h % 8 # 0
    THEN Raise("ValueError", "tilesize")
    ELSE NoExc

\* Overlap and tile size.
DPIRTiles(clip, tiles, tilesize, overlap) ==
    LET ov == OverlapPair(overlap, 0)
        g == TileGeometry(clip, tiles, tilesize, overlap, ov[1], ov[2],
                          DPIRMultiple)
    IN  [exc |-> IF g.exc # NoExc THEN g.exc
                 ELSE DPIRTileCheck(g.tile_w, g.tile_h),
         overlap_w |-> ov[1], overlap_h |-> ov[2],
         tile_w |-> g.tile_w, tile_h |-> g.tile_h, overlap |-> g.overlap]

DPIRNetworkPath(model) == "dpir/" \o DPIRModelNames[model + 1] \o ".onnx"

DPIR(clip, strength, tiles, tilesize, overlap, model, backend, net_scale) ==
    LET v == DPIRValidate(clip, model) IN
    IF v # NoExc THEN Outcome(v, <<>>, NoPath, NoRet) ELSE
    LET s == DPIRStrength(clip, strength) IN
    IF s.exc # NoExc THEN Outcome(s.exc, s.calls, NoPath, NoRet) ELSE
    LET t == DPIRTiles(clip, tiles, tilesize, overlap) IN
    IF t.exc # NoExc THEN Outcome(t.exc, s.calls, NoPath, NoRet) ELSE
    LET b == NormalizeBackend(backend)
        path == DPIRNetworkPath(model)
        inf == inference(<<clip, s.clip>>, path, <<t.overlap_w, t.overlap_h>>,
                         <<t.tile_w, t.tile_h>>, b)
    IN
    IF inf.exc # NoExc THEN Outcome(inf.exc, s.calls \o inf.calls, path, NoRet)
    ELSE Outcome(NoExc, s.calls \o inf.calls, path, Scaled(clip, net_scale, 1))

(***************************************************************************)
(* The arguments the model passes.                                         *)
(***************************************************************************)
Clips ==
    {NotAClip} \cup
    {VideoNode(f, w, h, n) : f \in Formats, w \in Dims, h \in Dims, n \in Frames}

\* Waifu2x never reads num_frames.
Waifu2xClips == {c \in Clips : c.kind = "VideoNode" => c.num_frames = 1}

Noises == -2..4
Scales == 0..3
Waifu2xModels == -1..7
DPIRModels == -1..4

\* The caller guarantees tiles >= 1.
TilesArgs ==
    {NoneArg} \cup {IntArg(t) : t \in 1..MaxTiles} \cup
    {TupleArg(t, u) : t \in 1..MaxTiles, u \in 1..MaxTiles}

TileSizeArgs ==
    {NoneArg} \cup {IntArg(d) : d \in Dims} \cup
    {TupleArg(d, e) : d \in Dims, e \in Dims}

OverlapArgs ==
    {NoneArg} \cup {IntArg(o) : o \in 0..MaxOverlap} \cup
    {TupleArg(o, q) : o \in 0..MaxOverlap, q \in 0..MaxOverlap}

\* A pair of two equal numbers gives what the number alone gives: the model
\* passes the pairs <<a, b>> with a < b.
Distinct(S) == {x \in S : x.kind = "tuple" => x.a < x.b}

Backends ==
    {ORT_CPU(2, 1), ORT_CUDA(1, FALSE, 2, 3), OV_CPU, OtherBackend} \cup
    {BackendClass(c) : c \in BackendClasses}

Strengths ==
    {NoStrength, FloatArg(10), ObjectArg} \cup
    {StrArg(x) : x \in NumericTexts \cup OtherTexts} \cup
    {VideoNode(f, w, h, n) : f \in {GRAYS, RGBS}, w \in Dims, h \in Dims, n \in Frames}

(***************************************************************************)
(* The state machine: a caller invokes one entry point; the invocation     *)
(* runs to its end (single-threaded, no suspension point); the caller      *)
(* takes the result.                                                       *)
(***************************************************************************)
NoArgs == [none |-> TRUE]

Init ==
    /\ op = "none"
    /\ args = NoArgs
    /\ exc = NoExc
    /\ calls = <<>>
    /\ network_path = NoPath
    /\ ret = NoRet

Finish(name, a, o) ==
    /\ op' = name
    /\ args' = a
    /\ exc' = o.exc
    /\ calls' = o.calls
    /\ network_path' = o.network_path
    /\ ret' = o.ret

CalcSizeCall ==
    /\ op = "none"
    /\ \E width \in 0..MaxWidth, tiles \in 0..MaxCalcTiles,
          overlap \in 0..MaxCalcOverlap, multiple \in 0..MaxMultiple :
          Finish("calcSize",
                 [width |-> width, tiles |-> tiles, overlap |-> overlap,
                  multiple |-> multiple],
                 IF calcSizeRaises(tiles, multiple)
                 THEN Outcome(Raise("ZeroDivisionError", "none"), <<>>, NoPath, NoRet)
                 ELSE Outcome(NoExc, <<>>, NoPath,
                              [kind |-> "int",
                               value |-> calcSize(width, tiles, overlap, multiple)]))

InferenceCall ==
    /\ op = "none"
    /\ \E clip \in {VideoNode(RGBS, w, w, 1) : w \in Dims},
          path \in {Waifu2xNetworkPath(6, 1, 2), DPIRNetworkPath(1)},
          overlap \in 0..MaxOverlap, tilesize \in Dims,
          backend \in Backends, net_scale \in NetScales :
          LET inf == inference(<<clip>>, path, <<overlap, overlap>>,
                               <<tilesize, tilesize>>, backend)
          IN  Finish("inference",
                     [clips |-> <<clip>>, network_path |-> path,
                      overlap |-> <<overlap, overlap>>,
                      tilesize |-> <<tilesize, tilesize>>, backend |-> backend],
                     Outcome(inf.exc, inf.calls, path,
                             IF inf.exc = NoExc THEN Scaled(clip, net_scale, 1)
                             ELSE NoRet))

\* The arguments are drawn in the order the code reads them.  An argument the
\* invocation never reads (an earlier check raised, or tilesize overrides
\* tiles) is left at its default in the signature.
Waifu2xArgs(clip, noise, scale, tiles, tilesize, overlap, model, backend) ==
    [clip |-> clip, noise |-> noise, scale |-> scale, tiles |-> tiles,
     tilesize |-> tilesize, overlap |-> overlap, model |-> model,
     backend |-> backend]

Waifu2xRun(clip, noise, scale, tiles, tilesize, overlap, model, backend, net_scale) ==
    Finish("Waifu2x",
           Waifu2xArgs(clip, noise, scale, tiles, tilesize, overlap, model, backend),
           Waifu2x(clip, noise, scale, tiles, tilesize, overlap, model, backend,
                   net_scale))

Waifu2xCall ==
    /\ op = "none"
    /\ \E clip \in Waifu2xClips, noise \in Noises, scale \in Scales,
          model \in Waifu2xModels :
          IF Waifu2xValidate(clip, noise, scale, model) # NoExc
          THEN Waifu2xRun(clip, noise, scale, NoneArg, NoneArg, NoneArg, model,
                          OV_CPU, 1)
          ELSE \E overlap \in Distinct(OverlapArgs), tilesize \in Distinct(TileSizeArgs) :
               \E tiles \in IF tilesize = NoneArg THEN Distinct(TilesArgs) ELSE {NoneArg} :
                  IF Waifu2xTiles(clip, tiles, tilesize, overlap, model).exc # NoExc
                  THEN Waifu2xRun(clip, noise, scale, tiles, tilesize, overlap,
                                  model, OV_CPU, 1)
                  ELSE \E backend \in Backends, net_scale \in NetScales :
                          Waifu2xRun(clip, noise, scale, tiles, tilesize, overlap,
                                     model, backend, net_scale)

DPIRArgs(clip, strength, tiles, tilesize, overlap, model, backend) ==
    [clip |-> clip, strength |-> strength, tiles |-> tiles,
     tilesize |-> tilesize, overlap |-> overlap, model |-> model,
     backend |-> backend]

DPIRRun(clip, strength, tiles, tilesize, overlap, model, backend, net_scale) ==
    Finish("DPIR",
           DPIRArgs(clip, strength, tiles, tilesize, overlap, model, backend),
           DPIR(clip, strength, tiles, tilesize, overlap, model, backend, net_scale))

DPIRCall ==
    /\ op = "none"
    /\ \E clip \in Clips, model \in DPIRModels, strength \in Strengths :
          IF DPIRValidate(clip, model) # NoExc
             \/ DPIRStrength(clip, strength).exc # NoExc
          THEN DPIRRun(clip, strength, NoneArg, NoneArg, NoneArg, model, OV_CPU, 1)
          ELSE \E overlap \in Distinct(OverlapArgs), tilesize \in Distinct(TileSizeArgs) :
               \E tiles \in IF tilesize = NoneArg THEN Distinct(TilesArgs) ELSE {NoneArg} :
                  IF DPIRTiles(clip, tiles, tilesize, overlap).exc # NoExc
                  THEN DPIRRun(clip, strength, tiles, tilesize, overlap, model,
                               OV_CPU, 1)
                  ELSE \E backend \in Backends, net_scale \in NetScales :
                          DPIRRun(clip, strength, tiles, tilesize, overlap, model,
                                  backend, net_scale)

\* The caller takes the result; nothing outlives the invocation.
Return ==
    /\ op # "none"
    /\ op' = "none"
    /\ args' = NoArgs
    /\ exc' = NoExc
    /\ calls' = <<>>
    /\ network_path' = NoPath
    /\ ret' = NoRet

Next == InferenceCall \/ Waifu2xCall \/ DPIRCall \/ Return

Spec == Init /\ [][Next]_vars

CalcNext == CalcSizeCall \/ Return

SpecCalc == Init /\ [][CalcNext]_vars

(***************************************************************************)
(* The claims.                                                             *)
(***************************************************************************)
CalcReturned == op = "calcSize" /\ args.tiles >= 1 /\ args.multiple >= 1

ModelFns == {"core.ort.Model", "core.ov.Model"}
ModelCalls == SelectSeq(calls, LAMBDA c : c.fn \in ModelFns)

Preset == op \in {"Waifu2x", "DPIR"}

\* A clip in 32 bit float.
FloatClip(c) ==
    /\ c.kind = "VideoNode"
    /\ c.format.sample_type = "FLOAT"
    /\ c.format.bits_per_sample = 32

\* Waifu2x: (model, noise, scale) in the documented domain, and the clip of
\* the layout the model expects.
W2xInRange ==
    /\ args.model \in 0..6 /\ args.noise \in -1..3 /\ args.scale \in {1, 2}
    /\ ~(args.model = 0 /\ args.noise = 0)

W2xLayout == args.clip.format.id = IF args.model = 0 THEN "GRAYS" ELSE "RGBS"

\* Waifu2x: a tile size the cunet model does not take: an explicit tilesize,
\* or the whole frame when neither tiles nor tilesize is given, that 4 does
\* not divide.
W2xCunetMisaligned ==
    /\ args.model = 6
    /\ \/ /\ args.tilesize.kind # "None"
          /\ (args.tilesize.a % 4 # 0 \/ args.tilesize.b % 4 # 0)
       \/ /\ args.tilesize.kind = "None" /\ args.tiles.kind = "None"
          /\ (args.clip.width % 4 # 0 \/ args.clip.height % 4 # 0)

\* network_path is waifu2x/<model name>/<file>, the file named after the
\* noise level; model 6, noise 1, scale 2 gives the cunet file of the example.
W2xPathResolved ==
    LET folder == "waifu2x/" \o Waifu2xModelNames[args.model + 1] \o "/" IN
    /\ IF args.noise = -1
       THEN network_path = folder \o "scale2.0x_model.onnx"
       ELSE network_path \in
                {folder \o "noise" \o ToString(args.noise) \o suffix :
                    suffix \in {"_model.onnx", "_scale2.0x_model.onnx"}}
    /\ (args.model = 6 /\ args.noise = 1 /\ args.scale = 2
            => network_path = "waifu2x/cunet/noise1_scale2.0x_model.onnx")

\* C3 as stated: in the domain, with a frame of the layout the model expects,
\* one path waifu2x/<model name>/<file> is resolved; outside the domain a
\* ValueError is raised and no path is resolved.
C3_Original ==
    (op = "Waifu2x" /\ FloatClip(args.clip)) =>
        IF W2xInRange
        THEN W2xLayout => W2xPathResolved
        ELSE exc.type = "ValueError" /\ network_path = NoPath

\* C3 as amended: the same, for tiles >= 1 and a tile size the model takes;
\* with a tile size the cunet model does not take, a ValueError is raised and
\* no path is resolved.
C3_PathResolved ==
    (op = "Waifu2x" /\ FloatClip(args.clip)) =>
        IF W2xInRange
        THEN W2xLayout =>
                IF W2xCunetMisaligned
                THEN exc = Raise("ValueError", "tilesize") /\ network_path = NoPath
                ELSE W2xPathResolved
        ELSE exc.type = "ValueError" /\ network_path = NoPath

C3_Witness ==
    /\ op = "Waifu2x"
    /\ args.model = 6 /\ args.noise = 1 /\ args.scale = 2
    /\ exc = NoExc
    /\ network_path = "waifu2x/cunet/noise1_scale2.0x_model.onnx"

\* The errors of the presets that name an argument.
EarlyErrors == {"clip", "format", "noise", "scale", "model", "strength"}
NamedErrors == EarlyErrors \cup {"tilesize", "backend"}

\* C4 as stated: in Waifu2x and DPIR every validation or configuration error
\* is raised before any call into the host or its plugins.
C4_Original == (Preset /\ exc.about \in NamedErrors) => calls = <<>>

\* C4 as amended: every such error is raised before any call to a backend
\* delegate or to core.fmtc.resample; the errors about clip, format, noise,
\* scale, model and strength, and the tile size error of Waifu2x, before any
\* host call at all.  The tile size error of DPIR is raised after the one
\* call that builds the strength clip, the unknown backend error after that
\* call in DPIR and after core.resize.Bicubic in Waifu2x for models 0..2.
C4_ErrorsBeforeDispatch ==
    (Preset /\ exc.about \in NamedErrors) =>
        /\ ModelCalls = <<>>
        /\ \A i \in 1..Len(calls) : calls[i].fn # "core.fmtc.resample"
        /\ exc.about \in EarlyErrors => calls = <<>>
        /\ (op = "Waifu2x" /\ exc.about = "tilesize") => calls = <<>>
        /\ (op = "DPIR" /\ exc.about \in {"tilesize", "backend"}) =>
              /\ Len(calls) = 1
              /\ calls[1].fn \in {"core.std.Expr", "core.std.BlankClip"}
        /\ (op = "Waifu2x" /\ exc.about = "backend") =>
              IF args.model \in {0, 1, 2}
              THEN Len(calls) = 1 /\ calls[1].fn = "core.resize.Bicubic"
              ELSE calls = <<>>

\* An unknown backend, rejected after Waifu2x has upscaled the clip.
C4_Witness ==
    /\ op = "Waifu2x"
    /\ exc = Raise("ValueError", "backend")
    /\ Len(calls) = 1

\* DPIR got past the checks of clip and model.
DPIRClipPassed == op = "DPIR" /\ exc.about \notin {"clip", "format", "model"}

\* C5: in DPIR a strength that is neither None, a number nor a clip (a
\* string, numeric or not, or some other object) raises TypeError, and the
\* backend is never invoked.
C5_StrengthTypeError ==
    (DPIRClipPassed /\ args.strength.kind \in {"str", "object"}) =>
        exc.type = "TypeError" /\ ModelCalls = <<>>

StrengthClip == DPIRClipPassed /\ args.strength.kind = "VideoNode"

StrengthSameShape ==
    /\ args.strength.width = args.clip.width
    /\ args.strength.height = args.clip.height
    /\ args.strength.num_frames = args.clip.num_frames

\* C6 as stated: a strength clip is accepted only if it has the width, the
\* height, the frame count and the channel layout of the clip (GRAYS for
\* models 0 and 2, RGBS for models 1 and 3); any mismatch raises a ValueError
\* naming "strength".
C6_Original ==
    StrengthClip =>
        (~(/\ StrengthSameShape
           /\ args.strength.format.id =
                  IF args.model \in {0, 2} THEN "GRAYS" ELSE "RGBS")
            => exc = Raise("ValueError", "strength"))

\* C6 as amended: the same, with the single-channel layout GRAYS asked of the
\* strength clip for every model 0..3.
C6_StrengthMatches ==
    StrengthClip =>
        (~(StrengthSameShape /\ args.strength.format.id = "GRAYS")
            => exc = Raise("ValueError", "strength"))

\* A GRAYS strength clip of the clip's size and another frame count, rejected
\* for a three-channel model.
C6_Witness ==
    /\ StrengthClip
    /\ args.model \in {1, 3}
    /\ args.strength.format.id = "GRAYS"
    /\ args.strength.width = args.clip.width
    /\ args.strength.height = args.clip.height
    /\ args.strength.num_frames # args.clip.num_frames
    /\ exc = Raise("ValueError", "strength")

\* The invocation got as far as the dispatch in inference.
BackendError == Raise("ValueError", "backend")
ReachedDispatch ==
    /\ op \in {"inference", "Waifu2x", "DPIR"}
    /\ exc \in {NoExc, BackendError}

\* The backend is one of the three variants: an instance, or, in a preset,
\* the class itself.
KnownBackend ==
    /\ args.backend.cls \in {"ORT_CPU", "ORT_CUDA", "OV_CPU"}
    /\ (args.backend.inst \/ Preset)

\* C7: ORT_CPU goes to the ort delegate with provider CPU, ORT_CUDA to the
\* ort delegate with provider CUDA, OV_CPU to the ov delegate with device
\* CPU, in one call that carries the fields of the config, the network path,
\* the overlap and the tile size unchanged and builtin = 1; any other backend
\* raises ValueError and no delegate is called; a variant class passed to a
\* preset is dispatched as that variant with its default fields.
C7_Dispatch ==
    ReachedDispatch =>
        IF KnownBackend
        THEN /\ exc = NoExc
             /\ Len(ModelCalls) = 1
             /\ LET c == ModelCalls[1]
                    b == args.backend
                IN  /\ c.builtin = 1
                    /\ c.network_path = network_path
                    /\ op = "inference" =>
                          /\ c.clips = args.clips
                          /\ c.network_path = args.network_path
                          /\ c.overlap = args.overlap
                          /\ c.tilesize = args.tilesize
                    /\ b.cls = "ORT_CPU" =>
                          /\ c.fn = "core.ort.Model" /\ c.provider = "CPU"
                          /\ DOMAIN c = {"fn", "clips", "network_path", "overlap",
                                         "tilesize", "provider", "builtin",
                                         "num_streams", "verbosity"}
                          /\ c.num_streams = IF b.inst THEN b.num_streams ELSE 1
                          /\ c.verbosity = IF b.inst THEN b.verbosity ELSE 2
                    /\ b.cls = "ORT_CUDA" =>
                          /\ c.fn = "core.ort.Model" /\ c.provider = "CUDA"
                          /\ DOMAIN c = {"fn", "clips", "network_path", "overlap",
                                         "tilesize", "provider", "builtin",
                                         "device_id", "num_streams", "verbosity",
                                         "cudnn_benchmark"}
                          /\ c.device_id = IF b.inst THEN b.device_id ELSE 0
                          /\ c.num_streams = IF b.inst THEN b.num_streams ELSE 1
                          /\ c.verbosity = IF b.inst THEN b.verbosity ELSE 2
                          /\ c.cudnn_benchmark =
                                 IF b.inst THEN b.cudnn_benchmark ELSE TRUE
                    /\ b.cls = "OV_CPU" =>
                          /\ c.fn = "core.ov.Model" /\ c.device = "CPU"
                          /\ DOMAIN c = {"fn", "clips", "network_path", "overlap",
                                         "tilesize", "device", "builtin"}
        ELSE exc = BackendError /\ ModelCalls = <<>>

\* A preset given the class Backend.ORT_CUDA, dispatched with the defaults.
C7_Witness ==
    /\ Preset
    /\ args.backend = BackendClass("ORT_CUDA")
    /\ exc = NoExc
    /\ Len(ModelCalls) = 1
    /\ ModelCalls[1].provider = "CUDA"

\* The alignment the network of the call asks for.
Alignment ==
    IF op = "DPIR" THEN 8 ELSE IF args.model = 6 THEN 4 ELSE 1

\* The invocation got as far as the tile size check.
ReachedTileCheck ==
    Preset /\ exc.about \notin EarlyErrors /\ exc # Raise("ValueError", "none")

\* The tile size is the explicit tilesize, or the whole frame, and the
\* alignment does not divide it.
TileMisaligned ==
    /\ (args.tilesize.kind # "None" \/ args.tiles.kind = "None")
    /\ LET w == IF args.tilesize.kind # "None" THEN args.tilesize.a
                ELSE args.clip.width
           h == IF args.tilesize.kind # "None" THEN args.tilesize.b
                ELSE args.clip.height
       IN  w % Alignment # 0 \/ h % Alignment # 0

\* C8: whenever a preset reaches the backend call, the forwarded tile width
\* and height are divisible by the alignment of the model (8 for DPIR, 4 for
\* Waifu2x cunet), however the tile size was obtained; a tile size that is
\* not raises a ValueError instead of being dispatched.
C8_TileAligned ==
    Preset =>
        /\ \A i \in 1..Len(ModelCalls) :
              /\ ModelCalls[i].tilesize[1] % Alignment = 0
              /\ ModelCalls[i].tilesize[2] % Alignment = 0
        /\ (ReachedTileCheck /\ TileMisaligned) =>
              exc = Raise("ValueError", "tilesize") /\ ModelCalls = <<>>

\* DPIR on a frame 8 does not divide, cut into tiles by tile count.
C8_Witness ==
    /\ op = "DPIR"
    /\ args.tiles.kind # "None"
    /\ args.clip.width % 8 # 0
    /\ Len(ModelCalls) = 1
    /\ ModelCalls[1].tilesize[1] % 8 = 0

\* C9: with neither tiles nor tilesize, the tile size forwarded to the
\* backend is the (width, height) of the input clip and the overlap forwarded
\* is (0, 0), whatever the overlap argument or the default overlap.
C9_WholeFrameNoOverlap ==
    (/\ Preset
     /\ args.tiles.kind = "None" /\ args.tilesize.kind = "None"
     /\ Len(ModelCalls) >= 1) =>
        /\ ModelCalls[1].tilesize = <<args.clip.width, args.clip.height>>
        /\ ModelCalls[1].overlap = <<0, 0>>

\* C10: Waifu2x called with a tile count and no tilesize: the forwarded tile
\* size covers the clip handed to the backend with that many tiles.
C10_TilesCoverClip ==
    (/\ op = "Waifu2x"
     /\ args.tiles.kind # "None" /\ args.tilesize.kind = "None"
     /\ Len(ModelCalls) >= 1) =>
        LET c == ModelCalls[1]
            W == c.clips[1].width
            H == c.clips[1].height
        IN  /\ args.tiles.a * c.tilesize[1]
                   - 2 * c.overlap[1] * (args.tiles.a - 1) >= W
            /\ args.tiles.b * c.tilesize[2]
                   - 2 * c.overlap[2] * (args.tiles.b - 1) >= H

====
